---- MODULE Spec2Model ----
(***************************************************************************)
(* Model of vibe_core/cli/remote.py: the remote cluster lifecycle          *)
(* (dispatch, setup_or_upgrade, status, destroy).  One invocation of       *)
(* dispatch runs one workflow to its end; invocations follow each other    *)
(* and share the remote resource group, the local files and nothing else.  *)
(* Every call across a boundary (az, terraform, kubectl) either returns or *)
(* raises.                                                                 *)
(***************************************************************************)
EXTENDS Integers, Sequences, FiniteSets, TLC

(* ---------------------------- bounds ----------------------------------- *)
MaxUrlLen == 2

(* ---------------------------- input sets ------------------------------- *)
QUOTE == "\""
UrlChars == {"u", QUOTE}
RECURSIVE SeqsUpTo(_, _)
SeqsUpTo(S, n) ==
  IF n = 0 THEN {<<>>}
  ELSE LET shorter == SeqsUpTo(S, n - 1)
       IN shorter \cup {Append(s, c) : s \in shorter, c \in S}
Urls == SeqsUpTo(UrlChars, MaxUrlLen)
NoFile == <<"<absent>">>

NameOfLen(n) == [i \in 1..n |-> "c"]
ClusterNames == {NameOfLen(52), NameOfLen(53)}
ResourceGroups == {"rg1"}
Resources == {"pre", "aks"}
AZURE_CR_DOMAIN == "azurecr.io"
Credentials == {"", "secret"}
\* <<registry_path, registry_username, registry_password>>
RegistryInputs ==
  {<<<<"myreg", AZURE_CR_DOMAIN>>, "", "">>, <<<<"myreg", AZURE_CR_DOMAIN>>, "secret", "secret">>,
   <<<<"myreg", AZURE_CR_DOMAIN>>, "secret", "">>, <<<<"docker.io">>, "", "">>,
   <<<<>>, "", "">>}
CoreCounts == {<<0, 0>>, <<2, 1>>}

(* ---------------------------- Python values ---------------------------- *)
PyBool(b) == [t |-> "bool", b |-> b, s |-> ""]
PyStr(s) == [t |-> "str", b |-> FALSE, s |-> s]
Truthy(v) == IF v.t = "bool" THEN v.b ELSE v.s # ""

VARIABLES
  pc,               \* position of the running invocation; "idle" between invocations
  ret,              \* "none" | "True" | "False" | "Exception" | "Cancelled"
  action, is_update, worker_replicas, cluster_name, resource_group,
  registry_path, registry_username, registry_password,
  created_rg,       \* setup_or_upgrade's created_rg
  cores,            \* <<workers, default>> handed to verify_enough_cores_available
  ws_held,          \* the terraform workspace context is entered
  destroy_rg,       \* destroy's parameter (a Python value)
  caller,           \* who called destroy: "dispatch" | "direct" | "replace" | "rollback"
  listed,           \* destroy's `resources`
  url, failed,      \* status's locals
  warned,           \* the staleness warning was logged
  ingress_out,      \* what url_from_ingress returned in this run
  tf_out,           \* what get_url_from_terraform_output returned in this run
  rg_exists, resources,          \* the remote resource group and what is in it
  kubeconfig, tf_files, url_file, \* local files
  calls,            \* boundary calls of this invocation, in order
  destroys,         \* destroy invocations of this invocation: <<caller, destroy_rg>>
  deleted,          \* deletions issued in this invocation: <<caller, id>>, id "RG" for the group
  pre,              \* the remote state and the local files when the invocation started
  prev,             \* how the previous invocation ended: "none" | "destroyed" | "wrote" | "other"
  prompts,          \* verify_to_proceed calls of this invocation: <<question, answer>>
  prov_failed,      \* the call of the try block (lines 133-216) that raised, or "none"
  backend_out,      \* what ensure_azurerm_backend returned in this run, <<>> before
  c_pc, c_id, c_upd, \* concurrent invocations: position, cluster identity, is_update
  c_ws              \* which invocation holds the workspace of an identity, 0 for none

params == <<action, is_update, worker_replicas, cluster_name, resource_group,
            registry_path, registry_username, registry_password>>
snap == <<pre>>
ghost == <<prompts, prov_failed>>
world == <<rg_exists, resources>>
localfiles == <<kubeconfig, tf_files>>
setup_locals == <<created_rg, cores, ws_held>>
destroy_locals == <<destroy_rg, caller, listed>>
status_locals == <<url, failed, warned, ingress_out, tf_out>>
destroy_hist == <<destroys, deleted>>
conc == <<c_pc, c_id, c_upd, c_ws>>
vars == <<pc, ret, params, setup_locals, destroy_locals, status_locals, world,
          localfiles, url_file, calls, destroy_hist, snap, prev, ghost, backend_out, conc>>

Snapshot ==
  [rg_exists |-> rg_exists, resources |-> resources, kubeconfig |-> kubeconfig,
   tf_files |-> tf_files, url_file |-> url_file]

Call(name) == calls' = Append(calls, name)
Return(value) == pc' = "done" /\ ret' = value

(* ---------------------------- pure helpers ----------------------------- *)
\* url.replace('"', "")
StripQuotes_Keep(s) == s
StripQuotes(s) == SelectSeq(s, LAMBDA c : c # QUOTE)

\* check_cluster_name_length
check_cluster_name_length_NoSuffix(name) == ~(Len(name) > (63 - 2 - 6))
check_cluster_name_length(name) == ~(Len(name) > (63 - 2 - 6 - 3))

\* registry_path.endswith(AZURE_CR_DOMAIN)
EndsWithCrDomain(path) == Len(path) > 0 /\ path[Len(path)] = AZURE_CR_DOMAIN

\* any([args.action in e for e in {"up", "upgrade", "update"}]) for the two
\* actions that reach it
IsUpdateAction(a) == a = "update"

\* two invocations of setup_or_upgrade running at once
Invocations == {1, 2}
\* f"farmvibes-aks-{az.cluster_name}-{az.resource_group}"
Identities == {"farmvibes-aks-c1-rg1", "farmvibes-aks-c2-rg1"}

BaseInit ==
  /\ pc = "idle" /\ ret = "none"
  /\ action = "none" /\ is_update = FALSE /\ worker_replicas = 0
  /\ cluster_name = NameOfLen(52) /\ resource_group = "rg1"
  /\ registry_path = <<>> /\ registry_username = "" /\ registry_password = ""
  /\ created_rg = FALSE /\ cores = <<0, 0>> /\ ws_held = FALSE
  /\ destroy_rg = PyBool(FALSE) /\ caller = "none" /\ listed = {}
  /\ url = <<>> /\ failed = FALSE /\ warned = FALSE
  /\ ingress_out = <<>> /\ tf_out = <<>>
  /\ rg_exists \in BOOLEAN
  /\ resources \in (IF rg_exists THEN SUBSET Resources ELSE {{}})
  /\ kubeconfig \in BOOLEAN /\ tf_files \in BOOLEAN
  /\ url_file = NoFile
  /\ calls = <<>> /\ destroys = <<>> /\ deleted = {}
  /\ pre = Snapshot
  /\ prompts = <<>> /\ prov_failed = "none"
  /\ prev = "none"
  /\ backend_out = <<>>

Init ==
  /\ BaseInit
  /\ c_pc = [p \in Invocations |-> "off"]
  /\ c_id = [p \in Invocations |-> "farmvibes-aks-c1-rg1"]
  /\ c_upd = [p \in Invocations |-> FALSE]
  /\ c_ws = [i \in Identities |-> 0]

(* ---------------------------- decisions of the code -------------------- *)
\* `if not worker_replicas`
NoWorkerReplicas_Negative(w) == w < 0
NoWorkerReplicas(w) == w = 0

\* `az.cluster_exists() and not is_update`
MustReplace_Never(exists, upd) == FALSE
MustReplace(exists, upd) == exists /\ ~upd

\* `if not is_update` around ensure_resource_group
CallsEnsureResourceGroup_Always(upd) == TRUE
CallsEnsureResourceGroup(upd) == ~upd

\* `not storage_name or not container_name or not storage_access_key`
BackendMissing_OnlyName(backend) == backend[1] = ""
BackendMissing(backend) == backend[1] = "" \/ backend[2] = "" \/ backend[3] = ""

\* the two nested conditions that guard az.infer_registry_credentials
NeedsInference(path, user, password, upd) ==
  /\ Len(path) > 0 /\ EndsWithCrDomain(path) /\ ~upd
  /\ (user = "" \/ password = "")

\* the except branch: an update never destroys, a fresh create asks
AsksKeepOrDestroy_Always(upd) == TRUE
AsksKeepOrDestroy(upd) == ~upd

\* `if not confirmation: destroy(...)`
RollbackDestroys(confirmation) == ~confirmation

\* the destroy_rg argument at the three call sites of destroy
ReplaceDestroyArg == PyBool(FALSE)
RollbackDestroyArg_True(crg) == PyBool(TRUE)
RollbackDestroyArg(crg) == PyBool(crg)
DispatchDestroyArg(rg) == PyStr(rg)

\* terraform.ensure_resource_group's result: whether it had to create the group
EnsureResourceGroupCreated(exists) == ~exists

\* az.cluster_exists(): the cluster is one of the resources of the group
ClusterExists(rs) == "aks" \in rs

EnterDestroy(from, arg) ==
  /\ pc' = "d_exists"
  /\ destroy_rg' = arg /\ caller' = from /\ listed' = {}
  /\ destroys' = Append(destroys, <<from, arg>>)

(* ---------------------------- dispatch --------------------------------- *)
DispatchSetup ==
  /\ pc = "idle"
  /\ \E a \in {"setup", "update"}, w \in {0, 1}, n \in ClusterNames, g \in ResourceGroups,
        r \in RegistryInputs :
       /\ action' = a /\ is_update' = IsUpdateAction(a) /\ worker_replicas' = w
       /\ cluster_name' = n /\ resource_group' = g
       /\ registry_path' = r[1] /\ registry_username' = r[2] /\ registry_password' = r[3]
  /\ pc' = "s_replicas"
  /\ calls' = <<"expand_azure_region">>
  /\ pre' = Snapshot
  /\ UNCHANGED <<ret, setup_locals, destroy_locals, status_locals, world, localfiles,
                 url_file, destroy_hist, prev, ghost, backend_out, conc>>

DispatchDestroy ==
  /\ pc = "idle"
  /\ \E g \in ResourceGroups :
       /\ action' = "destroy" /\ resource_group' = g
       /\ EnterDestroy("dispatch", DispatchDestroyArg(g))
  /\ pre' = Snapshot
  /\ UNCHANGED <<ret, is_update, worker_replicas, cluster_name, registry_path,
                 registry_username, registry_password, setup_locals, status_locals,
                 world, localfiles, url_file, calls, deleted, prev, ghost, backend_out, conc>>

\* destroy called as a function, with either value of its destroy_rg parameter
CallDestroy ==
  /\ pc = "idle"
  /\ action' = "destroy()"
  /\ \E b \in BOOLEAN : EnterDestroy("direct", PyBool(b))
  /\ pre' = Snapshot
  /\ UNCHANGED <<ret, is_update, worker_replicas, cluster_name, resource_group,
                 registry_path, registry_username, registry_password, setup_locals,
                 status_locals, world, localfiles, url_file, calls, deleted, prev, ghost, backend_out, conc>>

DispatchStatus ==
  /\ pc = "idle"
  /\ action' = "status"
  /\ pc' = "st_wsl"
  /\ pre' = Snapshot
  /\ UNCHANGED <<ret, is_update, worker_replicas, cluster_name, resource_group,
                 registry_path, registry_username, registry_password, setup_locals,
                 destroy_locals, status_locals, world, localfiles, url_file, calls,
                 destroy_hist, prev, ghost, backend_out, conc>>

DispatchUnsupported ==
  /\ pc = "idle"
  /\ action' = "restart"
  /\ Return("False")
  /\ pre' = Snapshot
  /\ UNCHANGED <<is_update, worker_replicas, cluster_name, resource_group,
                 registry_path, registry_username, registry_password, setup_locals,
                 destroy_locals, status_locals, world, localfiles, url_file, calls,
                 destroy_hist, prev, ghost, backend_out, conc>>

\* what a later invocation can know of this one: a destroy that completed, a
\* status (alone or at the end of setup/update) that wrote the URL file
Outcome(a, r, cs) ==
  IF a \in {"destroy", "destroy()"} /\ r = "True" THEN "destroyed"
  ELSE IF \E i \in DOMAIN cs : cs[i] = "write_url_file" THEN "wrote"
  ELSE "other"

\* dispatch hands the workflow's result (or its exception) on; the next
\* invocation is a new process that keeps only the remote state and the files
Exit ==
  /\ pc = "done"
  /\ pc' = "idle" /\ ret' = "none"
  /\ prev' = Outcome(action, ret, calls)
  /\ action' = "none" /\ is_update' = FALSE /\ worker_replicas' = 0
  /\ cluster_name' = NameOfLen(52) /\ resource_group' = "rg1"
  /\ registry_path' = <<>> /\ registry_username' = "" /\ registry_password' = ""
  /\ created_rg' = FALSE /\ cores' = <<0, 0>> /\ ws_held' = FALSE
  /\ destroy_rg' = PyBool(FALSE) /\ caller' = "none" /\ listed' = {}
  /\ url' = <<>> /\ failed' = FALSE /\ warned' = FALSE
  /\ ingress_out' = <<>> /\ tf_out' = <<>>
  /\ calls' = <<>> /\ destroys' = <<>> /\ deleted' = {}
  /\ pre' = Snapshot
  /\ prompts' = <<>> /\ prov_failed' = "none"
  /\ backend_out' = <<>>
  /\ UNCHANGED <<world, localfiles, url_file, conc>>

(* ---------------------------- setup_or_upgrade ------------------------- *)
\* lines 82-88
CheckWorkerReplicas ==
  /\ pc = "s_replicas"
  /\ IF NoWorkerReplicas(worker_replicas)
       THEN Return("False")
       ELSE pc' = "s_refresh" /\ ret' = ret
  /\ UNCHANGED <<params, setup_locals, destroy_locals, status_locals, world,
                 localfiles, url_file, calls, destroy_hist, snap, prev, ghost, backend_out, conc>>

\* a boundary call outside every try block: returns and goes on, or raises out
\* of the workflow
Unguarded(at, name, next) ==
  /\ pc = at
  /\ Call(name)
  /\ \/ pc' = next /\ ret' = ret
     \/ Return("Exception")

\* line 90
RefreshAzCreds ==
  /\ Unguarded("s_refresh", "refresh_az_creds", "s_providers")
  /\ UNCHANGED <<params, setup_locals, destroy_locals, status_locals, world,
                 localfiles, url_file, destroy_hist, snap, prev, ghost, backend_out, conc>>

\* line 91
CheckResourceProviders ==
  /\ Unguarded("s_providers", "check_resource_providers", "s_cores")
  /\ UNCHANGED <<params, setup_locals, destroy_locals, status_locals, world,
                 localfiles, url_file, destroy_hist, snap, prev, ghost, backend_out, conc>>

\* line 94, inside the try of lines 93-101
GetCurrentCoreCount ==
  /\ pc = "s_cores"
  /\ IF is_update
       THEN /\ Call("get_current_core_count")
            /\ \/ \E c \in CoreCounts :
                    cores' = c /\ pc' = "s_quota" /\ ret' = ret
               \/ cores' = cores /\ Return("False")
       ELSE calls' = calls /\ cores' = <<0, 0>> /\ pc' = "s_quota" /\ ret' = ret
  /\ UNCHANGED <<params, created_rg, ws_held, destroy_locals, status_locals, world,
                 localfiles, url_file, destroy_hist, snap, prev, ghost, backend_out, conc>>

VerifyEnoughCores_Unguarded ==
  /\ pc = "s_quota"
  /\ Call("verify_enough_cores_available")
  /\ \/ pc' = "s_name" /\ ret' = ret
     \/ Return("Exception")
  /\ UNCHANGED <<params, setup_locals, destroy_locals, status_locals, world,
                 localfiles, url_file, destroy_hist, snap, prev, ghost, backend_out, conc>>

\* line 95, inside the try of lines 93-101
VerifyEnoughCores ==
  /\ pc = "s_quota"
  /\ Call("verify_enough_cores_available")
  /\ \/ pc' = "s_name" /\ ret' = ret
     \/ Return("False")
  /\ UNCHANGED <<params, setup_locals, destroy_locals, status_locals, world,
                 localfiles, url_file, destroy_hist, snap, prev, ghost, backend_out, conc>>

\* lines 103-104
CheckName ==
  /\ pc = "s_name"
  /\ IF check_cluster_name_length(cluster_name)
       THEN pc' = "s_user" /\ ret' = ret
       ELSE Return("False")
  /\ UNCHANGED <<params, setup_locals, destroy_locals, status_locals, world,
                 localfiles, url_file, calls, destroy_hist, snap, prev, ghost, backend_out, conc>>

\* line 107
GetCurrentUserName ==
  /\ Unguarded("s_user", "get_current_user_name", "s_exists")
  /\ UNCHANGED <<params, setup_locals, destroy_locals, status_locals, world,
                 localfiles, url_file, destroy_hist, snap, prev, ghost, backend_out, conc>>

\* line 111
ClusterExistsCheck ==
  /\ pc = "s_exists"
  /\ Call("cluster_exists")
  /\ \/ /\ ret' = ret
        /\ pc' = IF MustReplace(ClusterExists(resources), is_update)
                   THEN "s_confirm_delete" ELSE "s_sub"
     \/ Return("Exception")
  /\ UNCHANGED <<params, setup_locals, destroy_locals, status_locals, world,
                 localfiles, url_file, destroy_hist, snap, prev, ghost, backend_out, conc>>

\* lines 116-121
ConfirmDelete ==
  /\ pc = "s_confirm_delete"
  /\ Call("verify_to_proceed")
  /\ \E confirmation \in BOOLEAN :
       /\ prompts' = Append(prompts, <<"delete", confirmation>>)
       /\ IF confirmation
            THEN EnterDestroy("replace", ReplaceDestroyArg) /\ ret' = ret
            ELSE Return("Cancelled") /\ UNCHANGED <<destroy_locals, destroys>>
  /\ UNCHANGED <<params, setup_locals, status_locals, world, localfiles, url_file,
                 deleted, snap, prev, prov_failed, backend_out, conc>>

\* lines 127-132
GetSubscription ==
  /\ pc = "s_sub"
  /\ Call("get_subscription_and_tenant_id")
  /\ created_rg' = FALSE
  /\ \/ pc' = "s_rg" /\ ret' = ret
     \/ Return("False")
  /\ UNCHANGED <<params, cores, ws_held, destroy_locals, status_locals, world,
                 localfiles, url_file, destroy_hist, snap, prev, ghost, backend_out, conc>>

\* lines 134-141
EnsureResourceGroup ==
  /\ pc = "s_rg"
  /\ IF CallsEnsureResourceGroup(is_update)
       THEN /\ Call("ensure_resource_group")
            /\ \/ /\ created_rg' = EnsureResourceGroupCreated(rg_exists)
                  /\ rg_exists' = TRUE
                  /\ pc' = "s_backend"
               \/ /\ pc' = "s_except"
                  /\ UNCHANGED <<created_rg, rg_exists>>
       ELSE pc' = "s_backend" /\ UNCHANGED <<calls, created_rg, rg_exists>>
  /\ UNCHANGED <<ret, params, cores, ws_held, destroy_locals, status_locals, resources,
                 localfiles, url_file, destroy_hist, snap, prev, ghost, backend_out, conc>>

\* lines 143-152
EnsureBackend ==
  /\ pc = "s_backend"
  /\ Call("ensure_azurerm_backend")
  /\ \/ \E backend \in Credentials \X Credentials \X Credentials :
          /\ backend_out' = backend
          /\ IF BackendMissing(backend)
               THEN Return("False")
               ELSE pc' = "s_creds" /\ ret' = ret
     \/ pc' = "s_except" /\ ret' = ret /\ backend_out' = backend_out
  /\ UNCHANGED <<params, setup_locals, destroy_locals, status_locals, world,
                 localfiles, url_file, destroy_hist, snap, prev, ghost, conc>>

\* lines 154-166
InferCredentials ==
  /\ pc = "s_creds"
  /\ IF NeedsInference(registry_path, registry_username, registry_password, is_update)
       THEN /\ Call("infer_registry_credentials")
            /\ \/ /\ registry_username' = "secret" /\ registry_password' = "secret"
                  /\ pc' = "s_ws"
               \/ /\ pc' = "s_except"
                  /\ UNCHANGED <<registry_username, registry_password>>
       ELSE pc' = "s_ws" /\ UNCHANGED <<calls, registry_username, registry_password>>
  /\ UNCHANGED <<ret, action, is_update, worker_replicas, cluster_name, resource_group,
                 registry_path, setup_locals, destroy_locals, status_locals, world,
                 localfiles, url_file, destroy_hist, snap, prev, ghost, backend_out, conc>>

\* line 168: entering the workspace context
EnterWorkspace ==
  /\ pc = "s_ws"
  /\ Call("workspace")
  /\ \/ ws_held' = TRUE /\ pc' = "s_infra"
     \/ ws_held' = FALSE /\ pc' = "s_except"
  /\ UNCHANGED <<ret, params, created_rg, cores, destroy_locals, status_locals, world,
                 localfiles, url_file, destroy_hist, snap, prev, ghost, backend_out, conc>>

\* lines 169-180; leaving the with block by an exception releases the workspace
EnsureInfra ==
  /\ pc = "s_infra"
  /\ Call("ensure_infra")
  /\ tf_files' = TRUE
  /\ \/ /\ rg_exists
        /\ resources' = resources \cup {"aks"}
        /\ pc' = "s_k8s" /\ ws_held' = ws_held
     \/ /\ \E made \in BOOLEAN :
             resources' = IF made /\ rg_exists THEN resources \cup {"aks"} ELSE resources
        /\ pc' = "s_except" /\ ws_held' = FALSE
  /\ UNCHANGED <<ret, params, created_rg, cores, destroy_locals, status_locals,
                 rg_exists, kubeconfig, url_file, destroy_hist, snap, prev, ghost, backend_out, conc>>

EnsureK8sCluster_StatusAnyway ==
  /\ pc = "s_k8s"
  /\ Call("ensure_k8s_cluster")
  /\ kubeconfig' = TRUE
  /\ \/ pc' = "s_services" /\ ws_held' = ws_held
     \/ pc' = "st_wsl" /\ ws_held' = FALSE
  /\ UNCHANGED <<ret, params, created_rg, cores, destroy_locals, status_locals, world,
                 tf_files, url_file, destroy_hist, snap, prev, ghost, backend_out, conc>>

\* lines 181-202
EnsureK8sCluster ==
  /\ pc = "s_k8s"
  /\ Call("ensure_k8s_cluster")
  /\ kubeconfig' = TRUE
  /\ \/ pc' = "s_services" /\ ws_held' = ws_held
     \/ pc' = "s_except" /\ ws_held' = FALSE
  /\ UNCHANGED <<ret, params, created_rg, cores, destroy_locals, status_locals, world,
                 tf_files, url_file, destroy_hist, snap, prev, ghost, backend_out, conc>>

\* lines 203-216, then the end of the with block and line 242
EnsureServices ==
  /\ pc = "s_services"
  /\ Call("ensure_services")
  /\ ws_held' = FALSE
  /\ \/ pc' = "st_wsl"
     \/ pc' = "s_except"
  /\ UNCHANGED <<ret, params, created_rg, cores, destroy_locals, status_locals, world,
                 localfiles, url_file, destroy_hist, snap, prev, ghost, backend_out, conc>>

\* lines 218-240
Except ==
  /\ pc = "s_except"
  /\ prov_failed' = calls[Len(calls)]
  /\ IF AsksKeepOrDestroy(is_update)
       THEN /\ Call("verify_to_proceed")
            /\ \E confirmation \in BOOLEAN :
                 /\ prompts' = Append(prompts, <<"keep", confirmation>>)
                 /\ IF RollbackDestroys(confirmation)
                      THEN EnterDestroy("rollback", RollbackDestroyArg(created_rg)) /\ ret' = ret
                      ELSE Return("False") /\ UNCHANGED <<destroy_locals, destroys>>
       ELSE Return("False") /\ UNCHANGED <<calls, destroy_locals, destroys, prompts>>
  /\ UNCHANGED <<params, setup_locals, status_locals, world, localfiles, url_file,
                 deleted, snap, prev, backend_out, conc>>

(* ---------------------------- destroy ---------------------------------- *)
\* `if destroy_rg`
DestroysGroup(v) == Truthy(v)

\* `[r["id"] for r in resources]`
IdsToDelete(rs) == rs

\* an exception in destroy is caught nowhere: it leaves destroy and its caller
\* line 273
ResourceGroupExists ==
  /\ pc = "d_exists"
  /\ Call("resource_group_exists")
  /\ \/ pc' = (IF rg_exists THEN "d_list" ELSE "d_local") /\ ret' = ret
     \/ Return("Exception")
  /\ UNCHANGED <<params, setup_locals, destroy_locals, status_locals, world,
                 localfiles, url_file, destroy_hist, snap, prev, ghost, backend_out, conc>>

\* line 275
ListResources ==
  /\ pc = "d_list"
  /\ Call("list_resources")
  /\ \/ listed' = resources /\ pc' = "d_delete" /\ ret' = ret
     \/ listed' = listed /\ Return("Exception")
  /\ UNCHANGED <<params, setup_locals, destroy_rg, caller, status_locals, world,
                 localfiles, url_file, destroy_hist, snap, prev, ghost, backend_out, conc>>

\* lines 276-278
DeleteResources ==
  /\ pc = "d_delete"
  /\ Call("delete_resources")
  /\ deleted' = deleted \cup {<<caller, r>> : r \in IdsToDelete(listed)}
  /\ \/ /\ resources' = resources \ IdsToDelete(listed)
        /\ pc' = (IF DestroysGroup(destroy_rg) THEN "d_delete_rg" ELSE "d_local")
        /\ ret' = ret
     \/ resources' = resources /\ Return("Exception")
  /\ UNCHANGED <<params, setup_locals, destroy_locals, status_locals, rg_exists,
                 localfiles, url_file, destroys, snap, prev, ghost, backend_out, conc>>

\* lines 278-280
DeleteResourceGroup ==
  /\ pc = "d_delete_rg"
  /\ Call("delete_resource_group")
  /\ deleted' = deleted \cup {<<caller, "RG">>}
  /\ \/ rg_exists' = FALSE /\ resources' = {} /\ pc' = "d_local" /\ ret' = ret
     \/ UNCHANGED world /\ Return("Exception")
  /\ UNCHANGED <<params, setup_locals, destroy_locals, status_locals,
                 localfiles, url_file, destroys, snap, prev, ghost, backend_out, conc>>

\* lines 282-291, and the return into the caller: dispatch returns destroy's
\* result, the replacement goes on with line 123, the rollback with line 240
RemoveLocalFiles ==
  /\ pc = "d_local"
  /\ Call("remove_local_files")
  /\ kubeconfig' = FALSE /\ tf_files' = FALSE
  /\ CASE caller \in {"dispatch", "direct"} -> Return("True")
       [] caller = "replace" -> pc' = "s_sub" /\ ret' = ret
       [] caller = "rollback" -> Return("False")
  /\ UNCHANGED <<params, setup_locals, destroy_locals, status_locals, world,
                 url_file, destroy_hist, snap, prev, ghost, backend_out, conc>>

(* ---------------------------- status ----------------------------------- *)
\* `if not url` at line 29: live discovery found nothing
IngressEmpty(u) == u = <<>>

\* `if not url` at line 33: neither source gave a URL
NoUrl_Never(u) == FALSE
NoUrl(u) == u = <<>>

\* lines 13-19
CheckWsl ==
  /\ pc = "st_wsl"
  /\ \/ pc' = "st_refresh" /\ ret' = ret
     \/ Return("False")
  /\ UNCHANGED <<params, setup_locals, destroy_locals, status_locals, world,
                 localfiles, url_file, calls, destroy_hist, snap, prev, ghost, backend_out, conc>>

\* line 22
RefreshAksCredentials ==
  /\ Unguarded("st_refresh", "refresh_aks_credentials", "st_context")
  /\ UNCHANGED <<params, setup_locals, destroy_locals, status_locals, world,
                 localfiles, url_file, destroy_hist, snap, prev, ghost, backend_out, conc>>

\* lines 23-25
GetConfigContext ==
  /\ Unguarded("st_context", "get_kubernetes_config_context", "st_ingress")
  /\ UNCHANGED <<params, setup_locals, destroy_locals, status_locals, world,
                 localfiles, url_file, destroy_hist, snap, prev, ghost, backend_out, conc>>

\* lines 27-28
UrlFromIngress ==
  /\ pc = "st_ingress"
  /\ Call("url_from_ingress")
  /\ failed' = FALSE
  /\ \/ \E u \in Urls :
          /\ url' = u /\ ingress_out' = u /\ ret' = ret
          /\ pc' = IF IngressEmpty(u) THEN "st_fallback" ELSE "st_persist"
     \/ Return("Exception") /\ UNCHANGED <<url, ingress_out>>
  /\ UNCHANGED <<params, setup_locals, destroy_locals, warned, tf_out, world,
                 localfiles, url_file, destroy_hist, snap, prev, ghost, backend_out, conc>>

\* lines 29-31
UrlFromTerraformOutput ==
  /\ pc = "st_fallback"
  /\ failed' = TRUE
  /\ Call("get_url_from_terraform_output")
  /\ \/ \E u \in Urls : url' = u /\ tf_out' = u /\ pc' = "st_persist" /\ ret' = ret
     \/ Return("Exception") /\ UNCHANGED <<url, tf_out>>
  /\ UNCHANGED <<params, setup_locals, destroy_locals, warned, ingress_out, world,
                 localfiles, url_file, destroy_hist, snap, prev, ghost, backend_out, conc>>

\* lines 33-50
PersistUrl ==
  /\ pc = "st_persist"
  /\ IF NoUrl(url)
       THEN Return("False") /\ UNCHANGED <<url, url_file, warned, calls>>
       ELSE /\ url' = StripQuotes(url)
            /\ Call("write_url_file")
            /\ url_file' = url'
            /\ warned' = failed
            /\ Return("True")
  /\ UNCHANGED <<params, setup_locals, destroy_locals, failed, ingress_out, tf_out,
                 world, localfiles, destroy_hist, snap, prev, ghost, backend_out, conc>>

(* ---------------------------- add_onnx --------------------------------- *)
ConnectionStrings == {"", "conn"}

\* `if not az.cluster_exists()`
OnnxClusterMissing_Never(exists) == FALSE
OnnxClusterMissing(exists) == ~exists

\* `if not connection_string`
NoConnectionString(cs) == cs = ""

\* lines 349-350
DispatchAddOnnx ==
  /\ pc = "idle"
  /\ action' = "add-onnx"
  /\ pc' = "o_exists"
  /\ pre' = Snapshot
  /\ UNCHANGED <<ret, is_update, worker_replicas, cluster_name, resource_group,
                 registry_path, registry_username, registry_password, setup_locals,
                 destroy_locals, status_locals, world, localfiles, url_file, calls,
                 destroy_hist, prev, ghost, backend_out, conc>>

\* lines 246-248
OnnxClusterExists ==
  /\ pc = "o_exists"
  /\ Call("cluster_exists")
  /\ \/ IF OnnxClusterMissing(ClusterExists(resources))
          THEN Return("False")
          ELSE pc' = "o_refresh" /\ ret' = ret
     \/ Return("Exception")
  /\ UNCHANGED <<params, setup_locals, destroy_locals, status_locals, world,
                 localfiles, url_file, destroy_hist, snap, prev, ghost, backend_out, conc>>

\* lines 250-251
OnnxRefreshAzCreds ==
  /\ Unguarded("o_refresh", "refresh_az_creds", "o_account")
  /\ UNCHANGED <<params, setup_locals, destroy_locals, status_locals, world,
                 localfiles, url_file, destroy_hist, snap, prev, ghost, backend_out, conc>>

\* lines 253-254
OnnxStorageAccountName ==
  /\ Unguarded("o_account", "get_storage_account_name", "o_connection")
  /\ UNCHANGED <<params, setup_locals, destroy_locals, status_locals, world,
                 localfiles, url_file, destroy_hist, snap, prev, ghost, backend_out, conc>>

\* lines 256-260
OnnxConnectionString ==
  /\ pc = "o_connection"
  /\ Call("get_storage_account_connection_string")
  /\ \/ \E cs \in ConnectionStrings :
          IF NoConnectionString(cs)
            THEN Return("False")
            ELSE pc' = "o_upload" /\ ret' = ret
     \/ Return("Exception")
  /\ UNCHANGED <<params, setup_locals, destroy_locals, status_locals, world,
                 localfiles, url_file, destroy_hist, snap, prev, ghost, backend_out, conc>>

\* lines 262-266
OnnxUpload ==
  /\ pc = "o_upload"
  /\ Call("upload_file")
  /\ \/ Return("True")
     \/ Return("Exception")
  /\ UNCHANGED <<params, setup_locals, destroy_locals, status_locals, world,
                 localfiles, url_file, destroy_hist, snap, prev, ghost, backend_out, conc>>

(* ---------------------------- concurrent invocations ------------------- *)
\* The provisioning sequence of setup_or_upgrade (lines 133-216) run by two
\* invocations at once.  c_pc[p] names the call invocation p is executing; the
\* action of that name is the call's return (or its raising).
seq_vars == <<pc, ret, params, setup_locals, destroy_locals, status_locals, world,
              localfiles, url_file, calls, destroy_hist, snap, prev, ghost, backend_out>>

\* terraform.workspace(name): an exclusive acquisition, free or held by one
WorkspaceFree(ws, id) == ws[id] = 0

Goto(p, next) == c_pc' = [c_pc EXCEPT ![p] = next]
Release(p) == c_ws' = [i \in Identities |-> IF c_ws[i] = p THEN 0 ELSE c_ws[i]]

InitConc ==
  /\ BaseInit /\ ~rg_exists /\ ~kubeconfig /\ ~tf_files
  /\ c_pc = [p \in Invocations |-> "new"]
  /\ c_id \in [Invocations -> Identities]
  /\ c_upd \in [Invocations -> BOOLEAN]
  /\ c_ws = [i \in Identities |-> 0]

\* lines 133-135: the try block starts with ensure_resource_group unless updating
ConcBegin(p) ==
  /\ c_pc[p] = "new"
  /\ Goto(p, IF CallsEnsureResourceGroup(c_upd[p]) THEN "s_rg" ELSE "s_backend")
  /\ UNCHANGED <<seq_vars, c_id, c_upd, c_ws>>

\* lines 135-141
ConcEnsureResourceGroup(p) ==
  /\ c_pc[p] = "s_rg"
  /\ \/ Goto(p, "s_backend")
     \/ Goto(p, "end")
  /\ UNCHANGED <<seq_vars, c_id, c_upd, c_ws>>

\* lines 143-152
ConcEnsureBackend(p) ==
  /\ c_pc[p] = "s_backend"
  /\ \/ Goto(p, "s_creds")
     \/ Goto(p, "end")
  /\ UNCHANGED <<seq_vars, c_id, c_upd, c_ws>>

\* lines 154-166
ConcInferCredentials(p) ==
  /\ c_pc[p] = "s_creds"
  /\ \/ Goto(p, "s_ws")
     \/ Goto(p, "end")
  /\ UNCHANGED <<seq_vars, c_id, c_upd, c_ws>>

\* line 168: the with statement acquires the workspace, then ensure_infra starts
ConcEnterWorkspace(p) ==
  /\ c_pc[p] = "s_ws"
  /\ \/ /\ WorkspaceFree(c_ws, c_id[p])
        /\ c_ws' = [c_ws EXCEPT ![c_id[p]] = p]
        /\ Goto(p, "s_infra")
     \/ Goto(p, "end") /\ c_ws' = c_ws
  /\ UNCHANGED <<seq_vars, c_id, c_upd>>

\* lines 169-180
ConcEnsureInfra(p) ==
  /\ c_pc[p] = "s_infra"
  /\ \/ Goto(p, "s_k8s") /\ c_ws' = c_ws
     \/ Goto(p, "end") /\ Release(p)
  /\ UNCHANGED <<seq_vars, c_id, c_upd>>

\* lines 181-202
ConcEnsureK8sCluster(p) ==
  /\ c_pc[p] = "s_k8s"
  /\ \/ Goto(p, "s_services") /\ c_ws' = c_ws
     \/ Goto(p, "end") /\ Release(p)
  /\ UNCHANGED <<seq_vars, c_id, c_upd>>

\* lines 203-216 and the end of the with block
ConcEnsureServices(p) ==
  /\ c_pc[p] = "s_services"
  /\ \/ Goto(p, "st")
     \/ Goto(p, "end")
  /\ Release(p)
  /\ UNCHANGED <<seq_vars, c_id, c_upd>>

NextConc ==
  \/ \E p \in Invocations : ConcBegin(p)
  \/ \E p \in Invocations : ConcEnsureResourceGroup(p)
  \/ \E p \in Invocations : ConcEnsureBackend(p)
  \/ \E p \in Invocations : ConcInferCredentials(p)
  \/ \E p \in Invocations : ConcEnterWorkspace(p)
  \/ \E p \in Invocations : ConcEnsureInfra(p)
  \/ \E p \in Invocations : ConcEnsureK8sCluster(p)
  \/ \E p \in Invocations : ConcEnsureServices(p)

SpecConc == InitConc /\ [][NextConc]_vars

(* ---------------------------- specification ---------------------------- *)
Next ==
  \/ DispatchSetup \/ DispatchDestroy \/ CallDestroy \/ DispatchStatus \/ DispatchUnsupported \/ Exit
  \/ CheckWorkerReplicas \/ RefreshAzCreds \/ CheckResourceProviders
  \/ GetCurrentCoreCount \/ VerifyEnoughCores \/ CheckName \/ GetCurrentUserName
  \/ ClusterExistsCheck \/ ConfirmDelete \/ GetSubscription \/ EnsureResourceGroup
  \/ EnsureBackend \/ InferCredentials \/ EnterWorkspace \/ EnsureInfra
  \/ EnsureK8sCluster \/ EnsureServices \/ Except
  \/ ResourceGroupExists \/ ListResources \/ DeleteResources \/ DeleteResourceGroup
  \/ RemoveLocalFiles
  \/ CheckWsl \/ RefreshAksCredentials \/ GetConfigContext \/ UrlFromIngress
  \/ UrlFromTerraformOutput \/ PersistUrl
  \/ DispatchAddOnnx \/ OnnxClusterExists \/ OnnxRefreshAzCreds \/ OnnxStorageAccountName
  \/ OnnxConnectionString \/ OnnxUpload

Spec == Init /\ [][Next]_vars

TypeOK ==
  /\ ret \in {"none", "True", "False", "Exception", "Cancelled"}
  /\ created_rg \in BOOLEAN /\ ws_held \in BOOLEAN
  /\ resources \subseteq Resources /\ (~rg_exists => resources = {})
  /\ url_file \in Urls \cup {NoFile}
  /\ backend_out \in {<<>>} \cup (Credentials \X Credentials \X Credentials)
  /\ c_id \in [Invocations -> Identities] /\ c_upd \in [Invocations -> BOOLEAN]
  /\ c_ws \in [Identities -> {0} \cup Invocations]

(* ---------------------------- properties ------------------------------- *)
Range(f) == {f[i] : i \in DOMAIN f}
Called(name) == name \in Range(calls)
RollbackCalls == {i \in DOMAIN destroys : destroys[i][1] = "rollback"}
Answered(question, answer) == <<question, answer>> \in Range(prompts)

\* a URL with every double quote left out, computed character by character
RECURSIVE WithoutQuotes(_)
WithoutQuotes(s) ==
  IF s = <<>> THEN <<>>
  ELSE IF Head(s) = QUOTE THEN WithoutQuotes(Tail(s))
  ELSE <<Head(s)>> \o WithoutQuotes(Tail(s))
HasQuote(s) == \E i \in DOMAIN s : s[i] = QUOTE

\* C1: in a fresh create (is_update false) in which a step of the try block
\* raised and the user answered the keep-or-destroy prompt with "do not keep",
\* destroy is invoked exactly once for the rollback, its destroy_rg argument is
\* the created_rg tracked at the failure, and that is False when
\* ensure_resource_group did not return.
C1_RollbackDestroysWhatWasCreated ==
  (action = "setup" /\ prov_failed # "none" /\ Answered("keep", FALSE)) =>
     /\ Cardinality(RollbackCalls) = 1
     /\ \A i \in RollbackCalls :
          /\ destroys[i][2] = PyBool(created_rg)
          /\ prov_failed = "ensure_resource_group" => destroys[i][2] = PyBool(FALSE)

C1_Witness ==
  /\ pc = "done" /\ action = "setup" /\ prov_failed = "ensure_infra"
  /\ Answered("keep", FALSE) /\ created_rg
  /\ destroys = <<<<"rollback", PyBool(TRUE)>>>>

\* C2: in an update run destroy is never invoked, no deletion of a resource or
\* of the resource group is issued and the user is not even asked; a run in
\* which a step of the try block raised returns False and has removed nothing
\* of what the group held.
C2_UpdateNeverDestroys ==
  is_update =>
     /\ destroys = <<>> /\ deleted = {} /\ prompts = <<>>
     /\ ~Called("delete_resources") /\ ~Called("delete_resource_group")
     /\ (pc = "done" /\ prov_failed # "none") =>
           /\ ret = "False"
           /\ rg_exists = pre.rg_exists /\ pre.resources \subseteq resources

C2_Witness ==
  /\ pc = "done" /\ is_update /\ prov_failed = "ensure_k8s_cluster"
  /\ ret = "False" /\ ClusterExists(pre.resources) /\ ClusterExists(resources)

\* C3: in an invocation started by dispatch (setup, update, destroy) the
\* deletion of the resource group is issued only when this invocation recorded
\* that it created the group, and never for a group that existed before it.
C3_GroupDeletedOnlyByItsCreator ==
  action \in {"setup", "update", "destroy"} =>
     \A d \in deleted : d[2] = "RG" => (created_rg /\ ~pre.rg_exists)

\* C4: the rollback after a failed fresh create issues no deletion of a
\* resource that was in the group before the invocation started and was not
\* removed by the confirmed destroy of the previous cluster.
C4_RollbackSparesWhatExisted ==
  LET replaced == {d[2] : d \in {x \in deleted : x[1] = "replace"}}
  IN \A d \in deleted : d[1] = "rollback" => d[2] \notin (pre.resources \ replaced)

\* C5: a workflow ends by returning a boolean; the only exception that leaves
\* it is the one raised when the user declines to delete the existing cluster.
C5_NoExceptionEscapes ==
  pc = "done" => ret \in {"True", "False", "Cancelled"}

\* C6: when destroy ends, however its remote calls went, the local kubeconfig
\* and the local infra-as-code state files are gone.
C6_DestroyAlwaysClearsLocalFiles ==
  /\ (pc = "done" /\ caller \in {"dispatch", "direct", "rollback"}) =>
        (~kubeconfig /\ ~tf_files)
  /\ (pc = "s_sub" /\ caller = "replace") => (~kubeconfig /\ ~tf_files)

\* C7: a destroy called right after a destroy that completed returns success
\* and has issued neither delete_resources nor delete_resource_group (stated
\* for a second call in which every remote call returned).
C7_SecondDestroyDeletesNothing ==
  (prev = "destroyed" /\ action \in {"destroy", "destroy()"}
     /\ pc = "done" /\ ret # "Exception") =>
       /\ ret = "True"
       /\ ~Called("delete_resources") /\ ~Called("delete_resource_group")

\* C8: a status that returned decided by the two URL sources: a non-empty
\* ingress URL is persisted without its quotes, status returns True and does
\* not warn; an empty ingress URL and a non-empty infra-output URL persist the
\* latter without its quotes, return True and warn; two empty URLs return
\* False and leave the file as it was, unwritten.
C8_StatusBySource ==
  (Called("url_from_ingress") /\ pc = "done" /\ ret \in {"True", "False"}) =>
     /\ ingress_out # <<>> =>
          /\ url_file = WithoutQuotes(ingress_out) /\ ret = "True" /\ ~warned
          /\ ~Called("get_url_from_terraform_output")
     /\ (ingress_out = <<>> /\ tf_out # <<>>) =>
          url_file = WithoutQuotes(tf_out) /\ ret = "True" /\ warned
     /\ (ingress_out = <<>> /\ tf_out = <<>>) =>
          /\ ret = "False" /\ url_file = pre.url_file
          /\ ~Called("write_url_file") /\ ~warned

C8_Witness ==
  /\ pc = "done" /\ ret = "True" /\ warned /\ ingress_out = <<>>
  /\ HasQuote(tf_out) /\ url_file = <<"u">> /\ pre.url_file # url_file

\* C9 as stated: after an invocation whose status wrote URL u to the file, a
\* status whose ingress discovery returns empty and that reports a URL reports
\* and persists u, without a quote.
C9_RoundTripOfPersistedUrl ==
  (prev = "wrote" /\ action = "status" /\ pc = "done" /\ failed /\ ret = "True") =>
       url_file = pre.url_file /\ ~HasQuote(url_file)

\* C9 amended: the URL u a status wrote has no quote; a later status whose
\* ingress discovery returns empty takes its fallback from the infra-output
\* URL and never from the file: a non-empty infra-output URL is reported and
\* persisted without its quotes (it is u only if the infra output is), an empty
\* one makes status return False with the file still holding u.
C9_FallbackIsInfraOutput ==
  /\ (prev = "wrote" /\ pc = "idle") => (url_file # NoFile /\ ~HasQuote(url_file))
  /\ (prev = "wrote" /\ action = "status" /\ pc = "done" /\ failed
        /\ ret \in {"True", "False"}) =>
          IF tf_out # <<>>
            THEN ret = "True" /\ url_file = WithoutQuotes(tf_out) /\ ~HasQuote(url_file)
            ELSE ret = "False" /\ url_file = pre.url_file /\ ~HasQuote(url_file)

C9_Witness ==
  /\ prev = "wrote" /\ action = "status" /\ pc = "done" /\ failed
  /\ ret = "True" /\ pre.url_file = <<"u">> /\ tf_out = <<"u", QUOTE>>
  /\ url_file = <<"u">>

\* C10: setup or update with worker_replicas = 0 returns False at once: nothing
\* is called inside the workflow (the log holds only dispatch's region
\* expansion), nothing is asked, destroyed or deleted, and the remote state and
\* the local files are what they were.
C10_NoReplicasNoSideEffect ==
  (action \in {"setup", "update"} /\ worker_replicas = 0 /\ pc # "s_replicas") =>
     /\ pc = "done" /\ ret = "False"
     /\ calls = <<"expand_azure_region">>
     /\ prompts = <<>> /\ destroys = <<>> /\ deleted = {}
     /\ Snapshot = pre

C10_Witness ==
  /\ pc = "done" /\ action = "update" /\ worker_replicas = 0 /\ ret = "False"
  /\ rg_exists /\ kubeconfig

\* C11: add-onnx on a cluster that does not exist returns False and has looked
\* up neither the storage account nor the connection string and uploaded
\* nothing; with a cluster and an empty connection string it returns False and
\* has uploaded nothing.
C11_AddOnnxNeedsClusterAndConnection ==
  action = "add-onnx" =>
     /\ ~ClusterExists(pre.resources) =>
          /\ ~Called("get_storage_account_name")
          /\ ~Called("get_storage_account_connection_string")
          /\ ~Called("upload_file") /\ ~Called("refresh_az_creds")
          /\ (pc = "done" /\ ret # "Exception") => ret = "False"
     /\ (pc = "done" /\ calls # <<>>
           /\ calls[Len(calls)] = "get_storage_account_connection_string"
           /\ ret # "Exception") =>
          ret = "False" /\ ~Called("upload_file")
     /\ Called("upload_file") =>
          (ClusterExists(pre.resources) /\ Called("get_storage_account_connection_string"))

C11_Witness ==
  /\ action = "add-onnx" /\ pc = "done" /\ ret = "False"
  /\ ~ClusterExists(pre.resources) /\ calls = <<"cluster_exists">>

Layers ==
  <<"ensure_resource_group", "ensure_azurerm_backend", "ensure_infra",
    "ensure_k8s_cluster", "ensure_services">>
IsLayer(name) == \E i \in DOMAIN Layers : Layers[i] = name
LayerCalls == SelectSeq(calls, IsLayer)
Last(s) == s[Len(s)]

\* C12: the name check answers False exactly for names longer than 52
\* characters; in a setup/update run such a name lets no ensure operation and
\* no destroy happen, the run never gets past the check and, when it returns,
\* returns False.
C12_LongNameStopsBeforeProvisioning ==
  action \in {"setup", "update"} =>
     /\ check_cluster_name_length(cluster_name) = (Len(cluster_name) <= 52)
     /\ Len(cluster_name) > 52 =>
          /\ LayerCalls = <<>> /\ destroys = <<>> /\ deleted = {} /\ prompts = <<>>
          /\ ~Called("get_current_user_name") /\ ~Called("cluster_exists")
          /\ pc \in {"s_replicas", "s_refresh", "s_providers", "s_cores", "s_quota",
                     "s_name", "done"}
          /\ (pc = "done" /\ ret # "Exception") => ret = "False"
     /\ (LayerCalls # <<>> \/ destroys # <<>>) => Len(cluster_name) <= 52

C12_Witness ==
  /\ action = "setup" /\ pc = "done" /\ ret = "False" /\ Len(cluster_name) = 53
  /\ worker_replicas = 1 /\ Last(calls) = "verify_enough_cores_available"

InferenceFailed ==
  \/ prov_failed = "infer_registry_credentials"
  \/ (pc = "s_except" /\ Last(calls) = "infer_registry_credentials")

\* C13: registry credentials are inferred only in a fresh create with a
\* registry path of the managed domain, and when the inference fails no ensure
\* operation has been called in that run.
C13_InferenceFailsBeforeAnyResource ==
  action \in {"setup", "update"} =>
     /\ Called("infer_registry_credentials") =>
          (~is_update /\ EndsWithCrDomain(registry_path))
     /\ InferenceFailed => LayerCalls = <<>>

Count(s, name) == Cardinality({i \in DOMAIN s : s[i] = name})
AboutToCallLayer ==
  \/ (pc = "s_rg" /\ ~is_update)
  \/ pc \in {"s_backend", "s_infra", "s_k8s", "s_services"}

\* C14: each of the five ensure operations is called only while the workspace
\* is held, the workspace is acquired at most once in a run, and no run ends
\* with the workspace still held.
C14_AllLayersInsideWorkspace ==
  /\ AboutToCallLayer => ws_held
  /\ Count(calls, "workspace") <= 1
  /\ pc \in {"done", "idle", "s_except"} => ~ws_held

EnsurePcs == {"s_rg", "s_backend", "s_infra", "s_k8s", "s_services"}

\* C15: two concurrent setup/update invocations with the same cluster name and
\* resource group are never both executing an ensure operation.
C15_SameIdentityNeverOverlaps ==
  \A p \in Invocations, q \in Invocations :
     (p # q /\ c_id[p] = c_id[q]) =>
        ~(c_pc[p] \in EnsurePcs /\ c_pc[q] \in EnsurePcs)

FirstIndex(s, name) == CHOOSE i \in DOMAIN s : s[i] = name /\ \A j \in 1..(i - 1) : s[j] # name

\* C16: a fresh create that finds a cluster of its identity asks before it
\* goes on: every run that got past the check was answered "yes" first, its
\* first destroy is the replacement and that destroy reached its end before
\* the first ensure call; a run answered "no" ended with the
\* cancelled-cluster-exists exception and issued no destroy, no deletion and
\* no ensure call.  An update never asks this and never destroys for it.
C16_ReplacePromptBeforeProvisioning ==
  action \in {"setup", "update"} =>
     /\ (~is_update /\ ClusterExists(pre.resources)
           /\ (Called("get_subscription_and_tenant_id") \/ LayerCalls # <<>>)) =>
          /\ prompts # <<>> /\ prompts[1] = <<"delete", TRUE>>
          /\ destroys # <<>> /\ destroys[1][1] = "replace"
          /\ Called("remove_local_files")
          /\ FirstIndex(calls, "verify_to_proceed") < FirstIndex(calls, "resource_group_exists")
          /\ \A i \in DOMAIN calls :
               IsLayer(calls[i]) => FirstIndex(calls, "remove_local_files") < i
     /\ Answered("delete", FALSE) =>
          /\ pc = "done" /\ ret = "Cancelled"
          /\ destroys = <<>> /\ deleted = {} /\ LayerCalls = <<>>
     /\ is_update =>
          /\ ~Answered("delete", TRUE) /\ ~Answered("delete", FALSE)
          /\ \A i \in DOMAIN destroys : destroys[i][1] # "replace"

C16_Witness ==
  /\ action = "setup" /\ ClusterExists(pre.resources) /\ Answered("delete", TRUE)
  /\ destroys[1][1] = "replace" /\ Called("remove_local_files")
  /\ Last(calls) = "ensure_infra" /\ pc = "s_k8s"

C16_WitnessDeclined ==
  /\ action = "setup" /\ ClusterExists(pre.resources) /\ Answered("delete", FALSE)
  /\ pc = "done" /\ ret = "Cancelled"

IsPrefix(s, t) == Len(s) <= Len(t) /\ \A i \in DOMAIN s : s[i] = t[i]

\* C17: the ensure calls of a run are, in this order and each at most once,
\* ensure_resource_group (fresh create only, never in an update),
\* ensure_azurerm_backend, ensure_infra, ensure_k8s_cluster, ensure_services:
\* the calls made so far are always an initial part of that list, a layer that
\* raised is the last one called, and nothing is called after any failure of
\* the provisioning block.
C17_LayersInFixedOrder ==
  action \in {"setup", "update"} =>
     /\ IsPrefix(LayerCalls, IF is_update THEN Tail(Layers) ELSE Layers)
     /\ Called("ensure_resource_group") => ~is_update
     /\ (LayerCalls # <<>> /\ ~is_update) => LayerCalls[1] = "ensure_resource_group"
     /\ IsLayer(prov_failed) => Last(LayerCalls) = prov_failed
     /\ prov_failed # "none" =>
          \A i \in DOMAIN calls : i > FirstIndex(calls, prov_failed) => ~IsLayer(calls[i])

C17_Witness ==
  /\ action = "update" /\ pc = "st_wsl" /\ LayerCalls = Tail(Layers)

C17_WitnessFailure ==
  /\ action = "setup" /\ pc = "done" /\ prov_failed = "ensure_k8s_cluster"
  /\ LayerCalls = SubSeq(Layers, 1, 4) /\ Called("delete_resources")

BackendIncomplete == backend_out # <<>> /\ \E i \in 1..3 : backend_out[i] = ""

\* C18: once ensure_azurerm_backend has returned without a storage name, a
\* container name or an access key, the run is over with False: it is the last
\* call of the run, so ensure_infra, ensure_k8s_cluster and ensure_services are
\* never called, the keep-or-destroy question is not asked, no rollback
\* destroy is invoked, and a resource group this run created is still there.
C18_IncompleteBackendEndsRun ==
  (action \in {"setup", "update"} /\ BackendIncomplete) =>
     /\ pc = "done" /\ ret = "False"
     /\ Last(calls) = "ensure_azurerm_backend"
     /\ ~Called("ensure_infra") /\ ~Called("ensure_k8s_cluster")
     /\ ~Called("ensure_services")
     /\ ~Answered("keep", TRUE) /\ ~Answered("keep", FALSE)
     /\ RollbackCalls = {} /\ prov_failed = "none"
     /\ created_rg => (rg_exists /\ \A d \in deleted : d[2] # "RG")

C18_Witness ==
  /\ action = "setup" /\ pc = "done" /\ ret = "False"
  /\ backend_out = <<"secret", "", "secret">>
  /\ created_rg /\ rg_exists /\ ~pre.rg_exists

StatusPcs == {"st_wsl", "st_refresh", "st_context", "st_ingress", "st_fallback", "st_persist"}
StatusCalls ==
  {"refresh_aks_credentials", "get_kubernetes_config_context", "url_from_ingress",
   "get_url_from_terraform_output", "write_url_file"}
StatusRun == pc \in StatusPcs \/ \E c \in StatusCalls : Called(c)
AllLayers == IF is_update THEN Tail(Layers) ELSE Layers

\* C19: in setup/update, status runs only after every layer of the run was
\* called and none failed; the run returns True only if every layer was called,
\* none failed and status wrote the URL file (its True return); a run in which
\* provisioning failed makes no call of status and leaves the URL file as it
\* found it.
C19_StatusOnlyAfterFullSuccess ==
  action \in {"setup", "update"} =>
     /\ StatusRun =>
          /\ LayerCalls = AllLayers /\ prov_failed = "none" /\ ~BackendIncomplete
     /\ (pc = "done" /\ ret = "True") =>
          /\ LayerCalls = AllLayers /\ prov_failed = "none"
          /\ Last(calls) = "write_url_file"
     /\ (prov_failed # "none" \/ pc = "s_except" \/ BackendIncomplete) =>
          /\ ~StatusRun /\ url_file = pre.url_file
     /\ (pc = "done" /\ LayerCalls # AllLayers) => (ret # "True" /\ url_file = pre.url_file)

C19_Witness ==
  /\ action = "setup" /\ pc = "done" /\ ret = "True"
  /\ LayerCalls = Layers /\ url_file # pre.url_file

C19_WitnessFailure ==
  /\ action = "setup" /\ pc = "done" /\ ret = "False"
  /\ prov_failed = "ensure_services" /\ pre.url_file # NoFile /\ url_file = pre.url_file

QuotaCalls == {"get_current_core_count", "verify_enough_cores_available"}

\* C20: a setup/update run that ended right after a call of the quota check
\* (the core count of the update path, or verify_enough_cores_available)
\* returned False, raised nothing, and had made no ensure call, no destroy and
\* no deletion, with the remote state and the local files as they were; an
\* update obtains the existing core counts before verifying, a fresh create
\* verifies with 0 and 0 and never asks for them.
C20_QuotaFailureTouchesNothing ==
  action \in {"setup", "update"} =>
     /\ (pc = "done" /\ Last(calls) \in QuotaCalls) =>
          /\ ret = "False"
          /\ LayerCalls = <<>> /\ destroys = <<>> /\ deleted = {} /\ prompts = <<>>
          /\ Snapshot = pre
     /\ (is_update /\ Called("verify_enough_cores_available")) =>
          /\ Called("get_current_core_count")
          /\ FirstIndex(calls, "get_current_core_count")
               < FirstIndex(calls, "verify_enough_cores_available")
     /\ (~is_update /\ Called("verify_enough_cores_available")) =>
          (cores = <<0, 0>> /\ ~Called("get_current_core_count"))
     /\ \A i \in DOMAIN calls : (IsLayer(calls[i]) \/ calls[i] = "resource_group_exists") =>
          (Called("verify_enough_cores_available")
             /\ FirstIndex(calls, "verify_enough_cores_available") < i)

C20_Witness ==
  /\ action = "update" /\ pc = "done" /\ ret = "False"
  /\ Last(calls) = "verify_enough_cores_available" /\ cores = <<2, 1>>
  /\ Len(cluster_name) = 52 /\ rg_exists

C20_WitnessCount ==
  /\ action = "update" /\ pc = "done" /\ ret = "False"
  /\ Last(calls) = "get_current_core_count"

====
